---- MODULE Spec2Model ----
(***************************************************************************)
(* Model of wireless_adb_scrcpy_qr.py: the MainWindow (caller, GUI thread), *)
(* the Worker (controller, living in its own QThread), the two Qt event     *)
(* queues between them, and the external adb / scrcpy processes.            *)
(*                                                                          *)
(* Python strings that the code inspects (strip, lower, in, startswith,     *)
(* split) are sequences of one-character strings, so that the text          *)
(* operations are computed and not assumed.  Error messages, which the code *)
(* only passes along, are plain TLA+ strings.                               *)
(***************************************************************************)
EXTENDS Naturals, Integers, Sequences, FiniteSets, TLC

(***************************************************************************)
(* Bound of the model: the number of button clicks of the user.             *)
(***************************************************************************)
MaxClicks == 3

(***************************************************************************)
(* Text operations of Python's str.                                         *)
(***************************************************************************)
UpperChars == <<"A","B","C","D","E","F","G","H","I","J","K","L","M",
                "N","O","P","Q","R","S","T","U","V","W","X","Y","Z">>
LowerChars == <<"a","b","c","d","e","f","g","h","i","j","k","l","m",
                "n","o","p","q","r","s","t","u","v","w","x","y","z">>

LowerChar(c) ==
    IF \E i \in 1..Len(UpperChars) : UpperChars[i] = c
    THEN LowerChars[CHOOSE i \in 1..Len(UpperChars) : UpperChars[i] = c]
    ELSE c

\* str.lower()
Lower(s) == [i \in 1..Len(s) |-> LowerChar(s[i])]

IsSpace(c) == c \in {" ", "\t", "\n"}

RECURSIVE LStrip(_)
LStrip(s) == IF s # <<>> /\ IsSpace(Head(s)) THEN LStrip(Tail(s)) ELSE s

RECURSIVE RStrip(_)
RStrip(s) ==
    IF s # <<>> /\ IsSpace(s[Len(s)]) THEN RStrip(SubSeq(s, 1, Len(s) - 1)) ELSE s

\* str.strip()
Strip(s) == RStrip(LStrip(s))

\* sub in s
Contains(sub, s) ==
    \E i \in 0..(Len(s) - Len(sub)) : SubSeq(s, i + 1, i + Len(sub)) = sub

\* s.startswith(p)
StartsWith(s, p) == Len(p) <= Len(s) /\ SubSeq(s, 1, Len(p)) = p

\* s.split(c) for a one-character separator: always at least one piece
RECURSIVE Split(_, _)
Split(s, c) ==
    IF \E i \in 1..Len(s) : s[i] = c
    THEN LET i == CHOOSE k \in 1..Len(s) : s[k] = c /\ \A j \in 1..(k - 1) : s[j] # c
         IN  <<SubSeq(s, 1, i - 1)>> \o Split(SubSeq(s, i + 1, Len(s)), c)
    ELSE <<s>>

\* Python's  a or b  on strings
OrElse(a, b) == IF a # <<>> THEN a ELSE b

(***************************************************************************)
(* Literals of the source.                                                  *)
(***************************************************************************)
PhrasePaired == <<"s","u","c","c","e","s","s","f","u","l","l","y"," ","p","a","i","r","e","d">>
PhraseConnected == <<"c","o","n","n","e","c","t","e","d">>
MarkerDevice == <<"d","e","v","i","c","e">>
Suffix5555 == <<":","5","5","5","5">>
Port5555 == <<"5","5","5","5">>

ErrAdbNotFound == "adb not found in PATH. Install platform-tools and ensure 'adb' is in PATH."
ErrPairFailed == "Pairing failed. Check the pairing code and try again."
ErrPairTimeout == "Pairing timed out. Please try again."
ErrPairException == "adb pair error: e"
ErrConnectFailed == "adb connect failed. Ensure Wireless debugging is ON and same Wi-Fi."
ErrConnectTimeout == "Connection timed out. Please try again."
ErrConnectException == "adb connect error: e"
ErrNoDevices == "No devices connected. Please connect first."
ErrNotFound == "Wireless device not found. Please connect first."
ErrScrcpyMissing == "scrcpy not found in PATH. Install scrcpy and ensure it is in PATH."
ErrScrcpyException == "Failed to start scrcpy: e"

(***************************************************************************)
(* Inputs: what the user types and what the external tools print.           *)
(***************************************************************************)
HostA == <<"a">>
HostB == <<"b">>
PairPort == <<"3","7">>

\* texts of the line edits before strip()
PairIpTexts == {<<" ">>, <<" ">> \o HostA}
PairPortTexts == {PairPort}
\* the code field is left blank, so that the password of the QR code is used
CodeTexts == {<<" ">>}
ConnectTexts == {<<HostA, Port5555>>, <<HostA, PairPort>>}

OutPaired == <<"S","u","c","c","e","s","s","f","u","l","l","y"," ","p","a","i","r","e","d">>
OutFailed == <<"F","a","i","l","e","d">>
OutConnected == <<"c","o","n","n","e","c","t","e","d"," ","t","o"," ","a">>
Header == <<"L","i","s","t"," ","o","f"," ","d","e","v","i","c","e","s"," ","a","t","t","a","c","h","e","d">>
StDevice == MarkerDevice
StOffline == <<"o","f","f","l","i","n","e">>
StNoPerm == <<"n","o"," ","p","e","r","m","i","s","s","i","o","n","s",";"," ","s","e","e"," ","d","e","v","i","c","e",".","h","t","m","l">>

SerialA == HostA \o Suffix5555
SerialB == HostB \o Suffix5555
SerialA37 == HostA \o <<":">> \o PairPort
SerialUsb == <<"R","5","8">>

DevLine(serial, status) == serial \o <<"\t">> \o status \o <<"\n">>

\* standard output of "adb devices"
DevicesStdouts ==
    { <<>>,
      Header \o <<"\n">>,
      Header \o <<"\n">> \o DevLine(SerialA, StDevice),
      Header \o <<"\n">> \o DevLine(SerialA, StOffline),
      Header \o <<"\n">> \o DevLine(SerialA, StNoPerm),
      Header \o <<"\n">> \o DevLine(SerialUsb, StDevice),
      Header \o <<"\n">> \o DevLine(SerialA37, StDevice) \o DevLine(SerialUsb, StDevice),
      Header \o <<"\n">> \o DevLine(SerialB, StDevice) \o DevLine(SerialA, StDevice) }

ExitCodes == {0, 1}

\* what subprocess.run / check_output can come back with
Exited(rc, out, err) == [kind |-> "exited", returncode |-> rc, stdout |-> out, stderr |-> err]
TimedOut == [kind |-> "TimeoutExpired", returncode |-> 0, stdout |-> <<>>, stderr |-> <<>>]
NotFound == [kind |-> "FileNotFoundError", returncode |-> 0, stdout |-> <<>>, stderr |-> <<>>]

\* the timeout= argument of the call that runs cmd: <<>> when none is passed
CommandTimeout == 10
timeout(cmd) == IF cmd \in {"pair", "connect"} THEN <<CommandTimeout>> ELSE <<>>

\* a call without timeout of a process that never exits does not return
Blocked == [kind |-> "blocked", returncode |-> 0, stdout |-> <<>>, stderr |-> <<>>]

\* the process never exits: TimeoutExpired once the timeout has passed
NeverExits(cmd) == IF timeout(cmd) = <<>> THEN Blocked ELSE TimedOut

Results(cmd) ==
    {NeverExits(cmd), NotFound} \cup
    CASE cmd = "version" ->
            {Exited(rc, <<"v">>, <<>>) : rc \in ExitCodes}
      [] cmd = "start-server" ->
            {Exited(rc, <<>>, <<>>) : rc \in ExitCodes}
      [] cmd = "pair" ->
            {Exited(rc, OutPaired, <<>>) : rc \in ExitCodes}
            \cup {Exited(0, <<>>, OutPaired), Exited(0, OutFailed, <<>>),
                  Exited(0, OutFailed, OutPaired)}
      [] cmd = "connect" ->
            {Exited(rc, OutConnected, <<>>) : rc \in ExitCodes}
            \cup {Exited(0, <<>>, OutConnected), Exited(0, OutFailed, <<>>),
                  Exited(0, OutFailed, OutConnected)}
      [] cmd = "devices" ->
            {Exited(0, out, <<>>) : out \in DevicesStdouts}

\* outcome of subprocess.Popen(["scrcpy", ...])
PopenOutcomes == {"started", "FileNotFoundError", "OSError"}

(***************************************************************************)
(* Pure computations of the Worker.                                         *)
(***************************************************************************)
\* do_pair / _try_connect:  output = proc.stdout.strip() or proc.stderr.strip()
Output(res) == OrElse(Strip(res.stdout), Strip(res.stderr))

\* a test that would compare the output without lower()
PairSucceededCaseSensitive(res) ==
    res.returncode = 0 /\ Contains(PhrasePaired, Output(res))

\* do_pair:  proc.returncode == 0 and "successfully paired" in output.lower()
PairSucceeded(res) ==
    res.returncode = 0 /\ Contains(PhrasePaired, Lower(Output(res)))

\* _try_connect:  proc.returncode == 0 and "connected" in output.lower()
ConnectSucceeded(res) ==
    res.returncode = 0 /\ Contains(PhraseConnected, Lower(Output(res)))

\* start_scrcpy:  lines = result.stdout.strip().split('\n')[1:]
DeviceLines(stdout) == Tail(Split(Strip(stdout), "\n"))

\* start_scrcpy:  line.strip() and 'device' in line
KeepLine(line) == Strip(line) # <<>> /\ Contains(MarkerDevice, line)

\* start_scrcpy:  [line.split('\t')[0] for line in lines if ...]
ConnectedDevices(stdout) ==
    LET kept == SelectSeq(DeviceLines(stdout), KeepLine)
    IN  [i \in 1..Len(kept) |-> Split(kept[i], "\t")[1]]

\* start_scrcpy:  device.startswith(self._connected_ip) or ':5555' in device
IsWireless(device, ip) == StartsWith(device, ip) \/ Contains(Suffix5555, device)

\* start_scrcpy: the for loop with break; <<>> is None, <<d>> is the device d
WirelessDevice(devices, ip) ==
    IF \E i \in 1..Len(devices) : IsWireless(devices[i], ip)
    THEN <<devices[CHOOSE i \in 1..Len(devices) :
                /\ IsWireless(devices[i], ip)
                /\ \A j \in 1..(i - 1) : ~IsWireless(devices[j], ip)]>>
    ELSE <<>>

\* start_scrcpy:  if not wireless_device  (None and "" are both falsy)
NoWirelessDevice(w) == w = <<>> \/ w[1] = <<>>

(***************************************************************************)
(* rand_text(length): the strings it can return.  The model draws from the  *)
(* strings that repeat one character: the first or the last of alphabet.    *)
(***************************************************************************)
Digits == <<"0","1","2","3","4","5","6","7","8","9">>

\* an alphabet that would also hold the characters the payload is built with
alphabet_punctuation == LowerChars \o UpperChars \o Digits \o <<":", ";">>

\* alphabet = string.ascii_letters + string.digits
alphabet == LowerChars \o UpperChars \o Digits

SampleChars == {alphabet[1], alphabet[Len(alphabet)]}
rand_text(length) == { [i \in 1..length |-> c] : c \in SampleChars }

\* PairingParams.qr_payload:  f"WIFI:T:ADB;S:{self.name};P:{self.password};;"
qr_payload(p) ==
    <<"W","I","F","I",":","T",":","A","D","B",";","S",":">> \o p.name
    \o <<";","P",":">> \o p.password \o <<";",";">>

\* PairingParams(name=rand_text(5), password=rand_text(6))
PairingParams == [name : rand_text(5), password : rand_text(6)]

(***************************************************************************)
(* State.                                                                   *)
(***************************************************************************)
VARIABLES
    params,             \* MainWindow.params
    connect_ip_input,   \* text of MainWindow.connect_ip_input
    connect_port_input, \* text of MainWindow.connect_port_input
    btn_mirror,         \* MainWindow.btn_mirror.isEnabled()
    adb_ok,             \* Worker._adb_ok
    connected_ip,       \* Worker._connected_ip
    connected_port,     \* Worker._connected_port
    scrcpy_proc,        \* Worker._scrcpy_proc: <<>> is None, <<h>> the handle h
    workerQueue,        \* slot invocations posted to the worker thread
    mainQueue,          \* signal emissions posted to the GUI thread
    workerSlot,         \* the slot the worker thread is executing
    running,            \* external commands the worker is blocked in
    procs,              \* mirror processes started so far
    issued,             \* history: the slot of every request, in issue order
    events,             \* history: every signal the Worker emitted
    delivered,          \* history: every signal a MainWindow slot has run for
    nlog,               \* number of self.logger.log calls of the Worker
    clicks              \* number of button clicks that changed something

vars == <<params, connect_ip_input, connect_port_input, btn_mirror, adb_ok,
          connected_ip, connected_port, scrcpy_proc, workerQueue, mainQueue,
          workerSlot, running, procs, issued, events, delivered, nlog, clicks>>

callerVars == <<params, connect_ip_input, connect_port_input, btn_mirror, clicks,
                delivered>>
workerVars == <<adb_ok, connected_ip, connected_port, scrcpy_proc>>

NoSlot == [id |-> 0, slot |-> "none", args |-> <<>>]
Request(id, slot, args) == [id |-> id, slot |-> slot, args |-> args]

\* a signal emission; msg is the text of an error signal
Signal(sig, req, args, msg) == [sig |-> sig, req |-> req, args |-> args, msg |-> msg]

\* a call of subprocess.run / check_output the worker is blocked in
Command(r, cmd, args, res) == [req |-> r, cmd |-> cmd, args |-> args, result |-> res]

(***************************************************************************)
(* MainWindow.__init__                                                      *)
(***************************************************************************)
Init ==
    \* one of the credentials rand_text can produce
    /\ params = [name |-> [i \in 1..5 |-> "a"], password |-> [i \in 1..6 |-> "a"]]
    \* try_auto_detect_ip: fills the fields, or leaves them empty on failure
    /\ \/ connect_ip_input = HostA /\ connect_port_input = Port5555
       \/ connect_ip_input = <<>> /\ connect_port_input = <<>>
    /\ btn_mirror = FALSE
    /\ adb_ok = FALSE
    /\ connected_ip = <<>>
    /\ connected_port = <<>>
    /\ scrcpy_proc = <<>>
    \* QMetaObject.invokeMethod(self.worker, "check_adb")
    /\ workerQueue = <<Request(1, "check_adb", <<>>)>>
    /\ mainQueue = <<>>
    /\ workerSlot = NoSlot
    /\ running = {}
    /\ procs = <<>>
    /\ issued = <<"check_adb">>
    /\ events = <<>>
    /\ delivered = <<>>
    /\ nlog = 0
    /\ clicks = 0

\* QMetaObject.invokeMethod(self.worker, slot, Qt.QueuedConnection, args)
invokeMethod(slot, args) ==
    /\ workerQueue' = Append(workerQueue, Request(Len(issued) + 1, slot, args))
    /\ issued' = Append(issued, slot)

(***************************************************************************)
(* Handlers of the GUI thread.                                              *)
(***************************************************************************)
\* a regeneration that would wait until the worker is idle
regenerate_qr_when_idle ==
    /\ workerSlot = NoSlot
    /\ clicks < MaxClicks
    /\ clicks' = clicks + 1
    /\ params' \in PairingParams
    /\ UNCHANGED <<connect_ip_input, connect_port_input, btn_mirror, workerVars,
                   workerQueue, mainQueue, workerSlot, running, procs, issued, events,
                   delivered, nlog>>

regenerate_qr ==
    /\ clicks < MaxClicks
    /\ clicks' = clicks + 1
    /\ params' \in PairingParams
    /\ UNCHANGED <<connect_ip_input, connect_port_input, btn_mirror, workerVars,
                   workerQueue, mainQueue, workerSlot, running, procs, issued, events,
                   delivered, nlog>>

\* the user has typed ipText, portText and codeText and clicks "Manual Pair"
manual_pair(ipText, portText, codeText) ==
    LET ip == Strip(ipText)
        port == Strip(portText)
        pairing_code == OrElse(Strip(codeText), params.password)
    IN  /\ IF ip = <<>> \/ port = <<>>
           THEN UNCHANGED <<workerQueue, issued, clicks>>
           ELSE /\ clicks < MaxClicks
                /\ clicks' = clicks + 1
                /\ invokeMethod("do_pair", <<ip, port, pairing_code>>)
        /\ UNCHANGED <<params, connect_ip_input, connect_port_input, btn_mirror,
                       workerVars, mainQueue, workerSlot, running, procs, events,
                       delivered, nlog>>

\* the user edits the two connection fields
EditConnect(ipText, portText) ==
    /\ connect_ip_input' = ipText
    /\ connect_port_input' = portText
    /\ UNCHANGED <<params, btn_mirror, clicks, workerVars, workerQueue, mainQueue,
                   workerSlot, running, procs, issued, events, delivered, nlog>>

connect_only ==
    LET ip == Strip(connect_ip_input)
        port == Strip(connect_port_input)
    IN  /\ IF ip = <<>> \/ port = <<>>
           THEN UNCHANGED <<workerQueue, issued, clicks>>
           ELSE /\ clicks < MaxClicks
                /\ clicks' = clicks + 1
                /\ invokeMethod("do_connect", <<ip, port>>)
        /\ UNCHANGED <<params, connect_ip_input, connect_port_input, btn_mirror,
                       workerVars, mainQueue, workerSlot, running, procs, events,
                       delivered, nlog>>

\* btn_mirror.clicked: a disabled button does not emit clicked
click_mirror ==
    /\ btn_mirror
    /\ clicks < MaxClicks
    /\ clicks' = clicks + 1
    /\ invokeMethod("start_scrcpy", <<>>)
    /\ UNCHANGED <<params, connect_ip_input, connect_port_input, btn_mirror,
                   workerVars, mainQueue, workerSlot, running, procs, events,
                       delivered, nlog>>

\* on_paired that would also enable the mirror button
on_paired_enables(ip, port) ==
    /\ connect_ip_input' = ip
    /\ connect_port_input' = port
    /\ btn_mirror' = TRUE

on_paired(ip, port) ==
    /\ connect_ip_input' = ip
    /\ connect_port_input' = port
    /\ UNCHANGED btn_mirror

on_connected ==
    /\ btn_mirror' = TRUE
    /\ UNCHANGED <<connect_ip_input, connect_port_input>>

\* on_error and the scrcpyStarted lambda only write to the log window
on_error(msg) ==
    UNCHANGED <<connect_ip_input, connect_port_input, btn_mirror>>

on_scrcpyStarted ==
    UNCHANGED <<connect_ip_input, connect_port_input, btn_mirror>>

\* the GUI thread's event loop runs the slot connected to the oldest posted signal
Deliver ==
    /\ mainQueue # <<>>
    /\ LET e == Head(mainQueue)
       IN  CASE e.sig = "paired" -> on_paired(e.args[1], e.args[2])
             [] e.sig = "connected" -> on_connected
             [] e.sig = "error" -> on_error(e.msg)
             [] e.sig = "scrcpyStarted" -> on_scrcpyStarted
    /\ mainQueue' = Tail(mainQueue)
    /\ delivered' = Append(delivered, Head(mainQueue))
    /\ UNCHANGED <<params, clicks, workerVars, workerQueue, workerSlot, running,
                   procs, issued, events, nlog>>

(***************************************************************************)
(* The worker thread: its event loop and the slots of Worker.               *)
(***************************************************************************)
\* an emit whose posted signal would overtake the signals already posted
emit_overtaking(e) ==
    /\ events' = Append(events, e)
    /\ mainQueue' = <<e>> \o mainQueue

\* signal.emit(...): the connections to MainWindow are queued (other thread)
emit(e) ==
    /\ events' = Append(events, e)
    /\ mainQueue' = Append(mainQueue, e)

\* the worker calls subprocess.run / check_output and blocks until it returns
spawn(r, cmd, args) ==
    \E res \in Results(cmd) : running' = running \cup {Command(r, cmd, args, res)}

\* the slot returns to the event loop
return(c) ==
    /\ running' = running \ {c}
    /\ workerSlot' = NoSlot

\* f"{ip}:{port}"
Target(ip, port) == ip \o <<":">> \o port

\* a loop that would dispatch while a slot is still executing
EventLoopReentrant == TRUE

\* the event loop of a thread dispatches the next event when no slot is executing
EventLoopIdle == workerSlot = NoSlot

\* a queue that would hand out the newest posted event
NextPostedNewest(q) == Len(q)

\* posted events are dispatched oldest first
NextPosted(q) == 1

check_adb(r) ==
    /\ spawn(r, "version", <<>>)
    /\ workerSlot' = r
    /\ UNCHANGED <<workerVars, procs, events, mainQueue, nlog>>

\* do_pair without its guard
do_pair_unguarded(r) ==
    /\ nlog' = nlog + 1
    /\ spawn(r, "pair", <<Target(r.args[1], r.args[2]), r.args[3]>>)
    /\ workerSlot' = r
    /\ UNCHANGED <<workerVars, procs, events, mainQueue>>

do_pair(r) ==
    IF ~adb_ok
    THEN /\ workerSlot' = NoSlot
         /\ UNCHANGED <<workerVars, running, procs, events, mainQueue, nlog>>
    ELSE /\ nlog' = nlog + 1
         /\ spawn(r, "pair", <<Target(r.args[1], r.args[2]), r.args[3]>>)
         /\ workerSlot' = r
         /\ UNCHANGED <<workerVars, procs, events, mainQueue>>

do_connect(r) ==
    IF ~adb_ok
    THEN /\ workerSlot' = NoSlot
         /\ UNCHANGED <<workerVars, running, procs, events, mainQueue, nlog>>
    ELSE /\ nlog' = nlog + 1
         /\ spawn(r, "connect", <<Target(r.args[1], r.args[2])>>)
         /\ workerSlot' = r
         /\ UNCHANGED <<workerVars, procs, events, mainQueue>>

start_scrcpy(r) ==
    /\ spawn(r, "devices", <<>>)
    /\ workerSlot' = r
    /\ UNCHANGED <<workerVars, procs, events, mainQueue, nlog>>

\* the worker's event loop calls the slot of the next posted invocation
Dispatch ==
    /\ EventLoopIdle
    /\ workerQueue # <<>>
    /\ LET i == NextPosted(workerQueue)
           r == workerQueue[i]
       IN  /\ workerQueue' = SubSeq(workerQueue, 1, i - 1)
                                \o SubSeq(workerQueue, i + 1, Len(workerQueue))
           /\ CASE r.slot = "check_adb" -> check_adb(r)
                [] r.slot = "do_pair" -> do_pair(r)
                [] r.slot = "do_connect" -> do_connect(r)
                [] r.slot = "start_scrcpy" -> start_scrcpy(r)
    /\ UNCHANGED <<callerVars, issued>>

\* check_adb, the except branch
check_adb_except(c) ==
    /\ adb_ok' = FALSE
    /\ emit(Signal("error", c.req.id, <<>>, ErrAdbNotFound))
    /\ nlog' = nlog + 1
    /\ return(c)
    /\ UNCHANGED <<connected_ip, connected_port, scrcpy_proc, procs>>

\* check_adb after check_output(["adb", "version"]); a non-zero exit raises
check_adb_version(c) ==
    IF c.result.kind = "exited" /\ c.result.returncode = 0
    THEN /\ nlog' = nlog + 1
         /\ \E res \in Results("start-server") :
                running' = (running \ {c}) \cup {Command(c.req, "start-server", <<>>, res)}
         /\ UNCHANGED <<workerVars, workerSlot, procs, events, mainQueue>>
    ELSE check_adb_except(c)

\* a server start that would raise on a non-zero exit code
check_adb_server_checked(c) ==
    IF c.result.kind = "exited" /\ c.result.returncode = 0
    THEN /\ adb_ok' = TRUE
         /\ return(c)
         /\ UNCHANGED <<connected_ip, connected_port, scrcpy_proc, procs, events,
                        mainQueue, nlog>>
    ELSE check_adb_except(c)

\* check_adb after subprocess.run(["adb", "start-server"]); the exit code is not looked at
check_adb_server(c) ==
    IF c.result.kind = "exited"
    THEN /\ adb_ok' = TRUE
         /\ return(c)
         /\ UNCHANGED <<connected_ip, connected_port, scrcpy_proc, procs, events,
                        mainQueue, nlog>>
    ELSE check_adb_except(c)

\* emitting the pairing port instead of the well-known port
PairedArgsPairingPort(ip, port) == <<ip, port>>

\* self.paired.emit(ip, "5555")
PairedArgs(ip, port) == <<ip, Port5555>>

\* do_pair without its except branch for the timeout
do_pair_returns_untimed(c) ==
    /\ CASE c.result.kind = "exited" ->
              /\ nlog' = nlog + 1
              /\ IF PairSucceeded(c.result)
                 THEN emit(Signal("paired", c.req.id,
                                  PairedArgs(c.req.args[1], c.req.args[2]), ""))
                 ELSE emit(Signal("error", c.req.id, <<>>, ErrPairFailed))
         [] OTHER ->
              /\ emit(Signal("error", c.req.id, <<>>, ErrPairException))
              /\ UNCHANGED nlog
    /\ return(c)
    /\ UNCHANGED <<workerVars, procs>>

\* do_pair after subprocess.run(["adb", "pair", ...], timeout=10)
do_pair_returns(c) ==
    /\ CASE c.result.kind = "exited" ->
              /\ nlog' = nlog + 1
              /\ IF PairSucceeded(c.result)
                 THEN emit(Signal("paired", c.req.id,
                                  PairedArgs(c.req.args[1], c.req.args[2]), ""))
                 ELSE emit(Signal("error", c.req.id, <<>>, ErrPairFailed))
         [] c.result.kind = "TimeoutExpired" ->
              /\ emit(Signal("error", c.req.id, <<>>, ErrPairTimeout))
              /\ UNCHANGED nlog
         [] OTHER ->
              /\ emit(Signal("error", c.req.id, <<>>, ErrPairException))
              /\ UNCHANGED nlog
    /\ return(c)
    /\ UNCHANGED <<workerVars, procs>>

\* _try_connect that would forget the connection when the command fails
try_connect_returns_clearing(c) ==
    /\ IF c.result.kind = "exited" /\ ConnectSucceeded(c.result)
       THEN /\ connected_ip' = c.req.args[1]
            /\ connected_port' = c.req.args[2]
            /\ emit(Signal("connected", c.req.id, <<>>, ""))
       ELSE /\ connected_ip' = <<>>
            /\ connected_port' = <<>>
            /\ emit(Signal("error", c.req.id, <<>>, ErrConnectFailed))
    /\ nlog' = nlog + 1
    /\ return(c)
    /\ UNCHANGED <<adb_ok, scrcpy_proc, procs>>

\* _try_connect after subprocess.run(["adb", "connect", ...], timeout=10)
try_connect_returns(c) ==
    /\ CASE c.result.kind = "exited" ->
              /\ nlog' = nlog + 1
              /\ IF ConnectSucceeded(c.result)
                 THEN /\ connected_ip' = c.req.args[1]
                      /\ connected_port' = c.req.args[2]
                      /\ emit(Signal("connected", c.req.id, <<>>, ""))
                 ELSE /\ emit(Signal("error", c.req.id, <<>>, ErrConnectFailed))
                      /\ UNCHANGED <<connected_ip, connected_port>>
         [] c.result.kind = "TimeoutExpired" ->
              /\ emit(Signal("error", c.req.id, <<>>, ErrConnectTimeout))
              /\ UNCHANGED <<connected_ip, connected_port, nlog>>
         [] OTHER ->
              /\ emit(Signal("error", c.req.id, <<>>, ErrConnectException))
              /\ UNCHANGED <<connected_ip, connected_port, nlog>>
    /\ return(c)
    /\ UNCHANGED <<adb_ok, scrcpy_proc, procs>>

\* start_scrcpy after subprocess.run(["adb", "devices"])
start_scrcpy_returns(c) ==
    /\ CASE c.result.kind = "exited" ->
              LET connected_devices == ConnectedDevices(c.result.stdout)
                  wireless_device == WirelessDevice(connected_devices, connected_ip)
              IN  IF connected_devices = <<>>
                  THEN /\ emit(Signal("error", c.req.id, <<>>, ErrNoDevices))
                       /\ UNCHANGED <<scrcpy_proc, procs, nlog>>
                  ELSE IF NoWirelessDevice(wireless_device)
                  THEN /\ emit(Signal("error", c.req.id, <<>>, ErrNotFound))
                       /\ UNCHANGED <<scrcpy_proc, procs, nlog>>
                  ELSE /\ nlog' = nlog + 1
                       /\ \E o \in PopenOutcomes :
                            CASE o = "started" ->
                                   LET h == [pid |-> Len(procs) + 1,
                                             args |-> <<"--stay-awake", "-s">>,
                                             serial |-> wireless_device[1]]
                                   IN  /\ procs' = Append(procs, h)
                                       /\ scrcpy_proc' = <<h>>
                                       /\ emit(Signal("scrcpyStarted", c.req.id, <<>>, ""))
                              [] o = "FileNotFoundError" ->
                                   /\ emit(Signal("error", c.req.id, <<>>, ErrScrcpyMissing))
                                   /\ UNCHANGED <<scrcpy_proc, procs>>
                              [] OTHER ->
                                   /\ emit(Signal("error", c.req.id, <<>>, ErrScrcpyException))
                                   /\ UNCHANGED <<scrcpy_proc, procs>>
         [] c.result.kind = "FileNotFoundError" ->
              /\ emit(Signal("error", c.req.id, <<>>, ErrScrcpyMissing))
              /\ UNCHANGED <<scrcpy_proc, procs, nlog>>
         [] OTHER ->
              /\ emit(Signal("error", c.req.id, <<>>, ErrScrcpyException))
              /\ UNCHANGED <<scrcpy_proc, procs, nlog>>
    /\ return(c)
    /\ UNCHANGED <<adb_ok, connected_ip, connected_port>>

\* a blocking call returns and the slot runs on to its end or to its next call
CommandReturn ==
    /\ \E c \in running :
         /\ c.result # Blocked
         /\ CASE c.cmd = "version" -> check_adb_version(c)
             [] c.cmd = "start-server" -> check_adb_server(c)
             [] c.cmd = "pair" -> do_pair_returns(c)
             [] c.cmd = "connect" -> try_connect_returns(c)
             [] c.cmd = "devices" -> start_scrcpy_returns(c)
    /\ UNCHANGED <<callerVars, workerQueue, issued>>

UserPair ==
    \E ipText \in PairIpTexts, portText \in PairPortTexts, codeText \in CodeTexts :
        manual_pair(ipText, portText, codeText)

UserEdit ==
    \E t \in ConnectTexts : EditConnect(t[1], t[2])

Next ==
    \/ regenerate_qr
    \/ UserPair
    \/ UserEdit
    \/ connect_only
    \/ click_mirror
    \/ Deliver
    \/ Dispatch
    \/ CommandReturn

Spec == Init /\ [][Next]_vars

(***************************************************************************)
(* Vocabulary of the properties.                                            *)
(***************************************************************************)
\* the step is the worker's event loop calling the slot of request r
Dispatched(r) ==
    /\ workerQueue # <<>>
    /\ Len(workerQueue') = Len(workerQueue) - 1
    /\ r \in {workerQueue[i] : i \in 1..Len(workerQueue)}
    /\ r \notin {workerQueue'[i] : i \in 1..Len(workerQueue')}

\* the step is the blocking call c returning with the slot running to its end
Returned(c) == c \in running /\ c \notin running'

\* the step emits exactly the signal e
Emits(e) == events' = Append(events, e) /\ mainQueue' = Append(mainQueue, e)

\* the step emits exactly one error signal, for request id, with a reason
EmitsOneError(id) ==
    /\ Len(events') = Len(events) + 1
    /\ LET e == events'[Len(events')]
       IN  /\ e.sig = "error" /\ e.req = id /\ e.msg # ""
           /\ Emits(e)

EmittedFor(id) == \E k \in 1..Len(events) : events[k].req = id
PendingFor(id) == \E k \in 1..Len(mainQueue) : mainQueue[k].req = id
DeliveredFor(id) == EmittedFor(id) /\ ~PendingFor(id)

\* the merged standard output and standard error of a finished command
CombinedOutput(res) == res.stdout \o res.stderr

(***************************************************************************)
(* C1: in no reachable state are two blocking external commands (version    *)
(* probe, server start, pair, connect, device enumeration) in flight at     *)
(* once, also when several requests are waiting behind a running one.       *)
(***************************************************************************)
C1_OneCommandInFlight == Cardinality(running) <= 1

\* a command is in flight while two further requests wait in the queue
C1_Witness == running # {} /\ Len(workerQueue) >= 2

(***************************************************************************)
(* C2 as stated: while the connect command of a request runs, the result    *)
(* (paired or error) of every pair request issued before it has already     *)
(* been delivered to the caller.                                            *)
(***************************************************************************)
C2_ConnectAfterPairDelivered ==
    \A c \in running :
        c.cmd = "connect" =>
            \A i \in 1..(c.req.id - 1) : issued[i] = "do_pair" => DeliveredFor(i)

(***************************************************************************)
(* C2 amended: while the connect command of a request runs, the result      *)
(* (paired or error) of every pair request issued before it has already     *)
(* been emitted by the Worker, that is, posted for delivery to the caller.  *)
(***************************************************************************)
C2_ConnectAfterPairEmitted ==
    \A c \in running :
        c.cmd = "connect" =>
            \A i \in 1..(c.req.id - 1) : issued[i] = "do_pair" => EmittedFor(i)

\* connect runs after a pair whose result is emitted and not yet delivered
C2_Witness ==
    \E c \in running :
        /\ c.cmd = "connect"
        /\ \E i \in 1..(c.req.id - 1) :
              issued[i] = "do_pair" /\ EmittedFor(i) /\ PendingFor(i)

C4_MirrorNeedsConnection ==
    /\ (\E c \in running : c.cmd = "devices") \/ procs # <<>>
          => connected_ip # <<>> /\ connected_port # <<>>
    /\ \A k \in 1..Len(events) :
          events[k].sig = "scrcpyStarted"
             => /\ procs # <<>>
                /\ \E j \in 1..(k - 1) : events[j].sig = "connected"

\* a mirror process was started and scrcpyStarted emitted
C4_Witness ==
    /\ procs # <<>>
    /\ \E k \in 1..Len(events) : events[k].sig = "scrcpyStarted"

(***************************************************************************)
(* C5: when a pair, connect or mirror request fails (the command times out, *)
(* cannot be spawned or is not classified a success; for the mirror: no     *)
(* mirror process is started), the step emits exactly one error signal with *)
(* a non-empty reason and no other signal, and _adb_ok, _connected_ip and   *)
(* _connected_port stay as they were.                                       *)
(***************************************************************************)
C5_Fails(c) ==
    CASE c.cmd = "pair" -> c.result.kind # "exited" \/ ~PairSucceeded(c.result)
      [] c.cmd = "connect" -> c.result.kind # "exited" \/ ~ConnectSucceeded(c.result)
      [] c.cmd = "devices" -> procs' = procs
      [] OTHER -> FALSE

C5_FailureEmitsOneError ==
    [][\A c \in running :
          Returned(c) /\ C5_Fails(c)
          => /\ EmitsOneError(c.req.id)
             /\ UNCHANGED <<adb_ok, connected_ip, connected_port>>]_vars

\* a connect failed after an earlier connect had succeeded, which is kept
C5_Witness ==
    /\ connected_ip = HostA /\ connected_port = Port5555
    /\ \E j, k \in 1..Len(events) :
          /\ j < k
          /\ events[j].sig = "connected"
          /\ events[k].sig = "error" /\ issued[events[k].req] = "do_connect"

(***************************************************************************)
(* C6: a connect request succeeds if and only if the connect command exits  *)
(* with code 0 and its combined output contains "connected" in any case; on *)
(* success _connected_ip, _connected_port become the requested host and     *)
(* port and exactly one connected signal is emitted, and otherwise they are *)
(* not written and no connected signal is emitted.                          *)
(***************************************************************************)
C6_ShouldConnect(res) ==
    /\ res.kind = "exited"
    /\ res.returncode = 0
    /\ Contains(PhraseConnected, Lower(CombinedOutput(res)))

C6_ConnectClassification ==
    [][\A c \in running :
          Returned(c) /\ c.cmd = "connect"
          => IF C6_ShouldConnect(c.result)
             THEN /\ connected_ip' = c.req.args[1]
                  /\ connected_port' = c.req.args[2]
                  /\ Emits(Signal("connected", c.req.id, <<>>, ""))
             ELSE /\ UNCHANGED <<connected_ip, connected_port>>
                  /\ \A k \in (Len(events) + 1)..Len(events') :
                        events'[k].sig # "connected"]_vars

(***************************************************************************)
(* C7: a pair request is answered with the paired signal if and only if the *)
(* pair command exits with code 0 and its combined output (standard output  *)
(* and standard error merged) contains "successfully paired" in any case.   *)
(***************************************************************************)
C7_ShouldPair(res) ==
    /\ res.kind = "exited"
    /\ res.returncode = 0
    /\ Contains(PhrasePaired, Lower(CombinedOutput(res)))

C7_PairClassification ==
    [][\A c \in running :
          Returned(c) /\ c.cmd = "pair"
          => /\ Len(events') = Len(events) + 1
             /\ (events'[Len(events')].sig = "paired") <=> C7_ShouldPair(c.result)]_vars

(***************************************************************************)
(* C8: a pair command classified as success emits exactly one signal,       *)
(* paired(host, "5555") with the host of the request, whatever the pairing  *)
(* port was, and neither that step nor the delivery of the signal changes   *)
(* _connected_ip, _connected_port or the enabledness of the mirror button.  *)
(***************************************************************************)
C8_PairedIsWellKnownPort ==
    [][/\ \A c \in running :
             (/\ Returned(c) /\ c.cmd = "pair"
              /\ c.result.kind = "exited" /\ PairSucceeded(c.result))
             => /\ Emits(Signal("paired", c.req.id, <<c.req.args[1], Port5555>>, ""))
                /\ UNCHANGED <<workerVars, procs, btn_mirror>>
       /\ (/\ mainQueue # <<>>
           /\ mainQueue' = Tail(mainQueue)
           /\ Head(mainQueue).sig = "paired")
          => UNCHANGED <<workerVars, procs, btn_mirror>>]_vars

\* a pair to another port than 5555 succeeded and its signal was delivered,
\* with the controller still not connected and the mirror button disabled
C8_Witness ==
    /\ \E k \in 1..Len(events) :
          /\ events[k].sig = "paired"
          /\ events[k].args = <<HostA, Port5555>>
          /\ DeliveredFor(events[k].req)
    /\ connect_ip_input = HostA /\ connect_port_input = Port5555
    /\ connected_ip = <<>> /\ ~btn_mirror

(***************************************************************************)
(* C9: the device a mirror process is started for is the first enumerated   *)
(* identifier that begins with _connected_ip whenever one begins with it,   *)
(* and only when none does the first identifier that contains ":5555".      *)
(***************************************************************************)
C9_First(devices, Test(_)) ==
    IF \E i \in 1..Len(devices) : Test(devices[i])
    THEN <<devices[CHOOSE i \in 1..Len(devices) :
                /\ Test(devices[i])
                /\ \A j \in 1..(i - 1) : ~Test(devices[j])]>>
    ELSE <<>>

C9_Select(identifiers, targetHost) ==
    LET Begins(d) == StartsWith(d, targetHost)
        HasSuffix(d) == Contains(Suffix5555, d)
    IN  IF C9_First(identifiers, Begins) # <<>>
        THEN C9_First(identifiers, Begins)
        ELSE C9_First(identifiers, HasSuffix)

C9_SelectPrefersHost ==
    [][\A c \in running :
          (/\ Returned(c) /\ c.cmd = "devices" /\ c.result.kind = "exited"
           /\ procs' # procs)
          => <<procs'[Len(procs')].serial>>
                = C9_Select(ConnectedDevices(c.result.stdout), connected_ip)]_vars

(***************************************************************************)
(* C10: the enumeration of an "adb devices" output skips the first line and *)
(* is, in output order, exactly the identifiers (the token before the tab)  *)
(* of the lines whose status field equals "device".                         *)
(***************************************************************************)
C10_StatusIsDevice(line) ==
    LET fields == Split(line, "\t")
    IN  Len(fields) >= 2 /\ Strip(fields[2]) = MarkerDevice

C10_Enumerate(stdout) ==
    LET ready == SelectSeq(Tail(Split(stdout, "\n")), C10_StatusIsDevice)
    IN  [i \in 1..Len(ready) |-> Split(ready[i], "\t")[1]]

C10_EnumerateByStatus ==
    \A c \in running :
        c.cmd = "devices" /\ c.result.kind = "exited"
        => ConnectedDevices(c.result.stdout) = C10_Enumerate(c.result.stdout)

(***************************************************************************)
(* C11: result events reach the caller in request-issue order.  The         *)
(* signals the MainWindow slots have run for are, in that order, the first  *)
(* signals the Worker emitted (so the signals of one request arrive in the  *)
(* order emitted, and none is lost or duplicated), and the signals are      *)
(* emitted in the order their requests were issued: a signal of a request   *)
(* issued earlier is never delivered after a signal of a later request.     *)
(***************************************************************************)
C11_DeliveredInIssueOrder ==
    /\ delivered \o mainQueue = events
    /\ \A i, j \in 1..Len(events) : i < j => events[i].req <= events[j].req
    /\ \A i \in 1..Len(delivered) : \A j \in 1..Len(mainQueue) :
          delivered[i].req <= mainQueue[j].req

\* the signals of two requests have been delivered, and the second one was
\* emitted while the first one was still pending or already delivered
C11_Witness ==
    /\ Len(delivered) >= 2
    /\ delivered[1].req < delivered[2].req
    /\ mainQueue # <<>>

(***************************************************************************)
(* C12: every blocking external command (version probe, server start,       *)
(* pair, connect, device enumeration) waits at most a timeout, so the call  *)
(* the worker is blocked in always returns, also when the external process  *)
(* never exits, and the request finishes and the worker goes on to the      *)
(* next queued request.                                                     *)
(***************************************************************************)
C12_EveryCommandReturns ==
    \A c \in running : timeout(c.cmd) # <<>> /\ c.result # Blocked

(***************************************************************************)
(* C13: end to end.  After a successful check_adb the requests do_pair,     *)
(* do_connect, start_scrcpy are issued in this order.  The pair command     *)
(* exits with 0 and the output "Successfully paired", the connect command   *)
(* for (host, "5555") exits with 0 and the output "connected to ...", and   *)
(* the enumeration lists host:5555 with the status device.  Then the        *)
(* signals emitted are exactly paired(host, "5555"), connected,             *)
(* scrcpyStarted in this order, none of them an error, and the connected    *)
(* address ends as (host, "5555").                                          *)
(***************************************************************************)
\* the command exited with 0 and its output is the text out, on either stream
C13_ExitsWith(res, out) ==
    res.kind = "exited" /\ res.returncode = 0 /\ Strip(CombinedOutput(res)) = out

\* the enumeration lists serial with the status device
C13_Lists(res, serial) ==
    /\ res.kind = "exited"
    /\ LET ids == C10_Enumerate(res.stdout)
       IN  \E i \in 1..Len(ids) : ids[i] = serial

C13_Paired(host) == Signal("paired", 2, <<host, Port5555>>, "")
C13_Connected == Signal("connected", 3, <<>>, "")
C13_Started == Signal("scrcpyStarted", 4, <<>>, "")

\* the pair step of the scenario
C13_PairStep(c) ==
    /\ Returned(c) /\ c.cmd = "pair" /\ c.req.id = 2
    /\ adb_ok /\ events = <<>>
    /\ C13_ExitsWith(c.result, OutPaired)

\* the connect step of the scenario
C13_ConnectStep(c) ==
    /\ Returned(c) /\ c.cmd = "connect" /\ c.req.id = 3
    /\ c.req.args[2] = Port5555
    /\ events = <<C13_Paired(c.req.args[1])>>
    /\ C13_ExitsWith(c.result, OutConnected)

\* the mirror step of the scenario, after its connect step
C13_MirrorStep(c) ==
    /\ Returned(c) /\ c.cmd = "devices" /\ c.req.id = 4
    /\ events = <<C13_Paired(connected_ip), C13_Connected>>
    /\ connected_port = Port5555
    /\ C13_Lists(c.result, Target(connected_ip, Port5555))

\* the claim as stated: the mirror step always ends in scrcpyStarted
C13_EndToEnd ==
    [][\A c \in running :
          /\ C13_PairStep(c) => events' = <<C13_Paired(c.req.args[1])>>
          /\ C13_ConnectStep(c) =>
                /\ events' = Append(events, C13_Connected)
                /\ connected_ip' = c.req.args[1] /\ connected_port' = Port5555
          /\ C13_MirrorStep(c) =>
                /\ events' = Append(events, C13_Started)
                /\ UNCHANGED <<connected_ip, connected_port>>]_vars

\* the text of the error that stands for a mirror process that cannot be started
C13_SpawnErrors == {ErrScrcpyMissing, ErrScrcpyException}

\* C13 as it holds: scrcpyStarted when the mirror process could be started,
\* the spawn error in its place when it could not
C13_EndToEndIfSpawned ==
    [][\A c \in running :
          /\ C13_PairStep(c) => events' = <<C13_Paired(c.req.args[1])>>
          /\ C13_ConnectStep(c) =>
                /\ events' = Append(events, C13_Connected)
                /\ connected_ip' = c.req.args[1] /\ connected_port' = Port5555
          /\ C13_MirrorStep(c) =>
                /\ \/ /\ Len(procs') = Len(procs) + 1
                      /\ events' = Append(events, C13_Started)
                   \/ /\ procs' = procs
                      /\ \E msg \in C13_SpawnErrors :
                            events' = Append(events, Signal("error", 4, <<>>, msg))
                /\ UNCHANGED <<connected_ip, connected_port>>]_vars

\* the scenario has run to its end and the mirror process was started
C13_Witness ==
    /\ issued = <<"check_adb", "do_pair", "do_connect", "start_scrcpy">>
    /\ events = <<C13_Paired(HostA), C13_Connected, C13_Started>>
    /\ connected_ip = HostA /\ connected_port = Port5555
    /\ Len(procs) = 1 /\ running = {}

(***************************************************************************)
(* C14: every credential, the one generated at start and every regenerated  *)
(* one, has a name of length 5 and a password of length 6 over the          *)
(* alphabet [A-Za-z0-9], and its payload is "WIFI:T:ADB;S:" + name +        *)
(* ";P:" + password + ";;": name and password bring no delimiter into the   *)
(* payload, so the payload splits at ";" into exactly the fixed fields.     *)
(***************************************************************************)
C14_Alphabet ==
    {UpperChars[i] : i \in 1..26} \cup {LowerChars[i] : i \in 1..26}
    \cup {"0", "1", "2", "3", "4", "5", "6", "7", "8", "9"}

C14_Delimiters == {";", ":", ","}

C14_Over(text, chars) == \A i \in 1..Len(text) : text[i] \in chars

C14_Scheme == <<"W","I","F","I",":","T",":","A","D","B">>

C14_CredentialAndPayload ==
    LET payload == qr_payload(params)
    IN  /\ Len(params.name) = 5 /\ Len(params.password) = 6
        /\ C14_Over(params.name, C14_Alphabet)
        /\ C14_Over(params.password, C14_Alphabet)
        /\ payload = C14_Scheme \o <<";","S",":">> \o params.name
                     \o <<";","P",":">> \o params.password \o <<";",";">>
        /\ C14_Over(params.name \o params.password,
                    C14_Alphabet \ C14_Delimiters)
        /\ Split(payload, ";") = <<C14_Scheme, <<"S",":">> \o params.name,
                                   <<"P",":">> \o params.password, <<>>, <<>>>>

\* a regenerated credential: name and password differ from those of the start
C14_Witness ==
    /\ clicks >= 1
    /\ params.name = [i \in 1..5 |-> "9"]
    /\ params.password = [i \in 1..6 |-> "9"]

(***************************************************************************)
(* C15: regenerating the credential is possible in every state, also while  *)
(* the worker executes a pair, a connect or a mirror launch.  The step      *)
(* replaces the credential by a generated one and changes nothing else: not *)
(* the availability of adb, not the connected address, not the commands in  *)
(* flight or the processes started, and not the requests already issued,    *)
(* so a pair request keeps the password it was issued with.                 *)
(***************************************************************************)
\* the step is a click that issues no request: "Regenerate QR"
C15_Regenerates == clicks' = clicks + 1 /\ issued' = issued

C15_RegenerateAnytime ==
    /\ [](clicks < MaxClicks => ENABLED regenerate_qr)
    /\ [][C15_Regenerates =>
             /\ params' \in PairingParams
             /\ UNCHANGED <<adb_ok, connected_ip, connected_port, scrcpy_proc>>
             /\ UNCHANGED <<running, procs, events>>
             /\ UNCHANGED <<workerQueue, workerSlot>>]_vars

\* the pair command in flight carries the password of a credential that has
\* been superseded since the request was issued
C15_Witness ==
    \E c \in running :
        /\ c.cmd = "pair"
        /\ c.req.args[3] # params.password
        /\ c.args[2] = c.req.args[3]

(***************************************************************************)
(* C16: check_adb runs the version probe and then the server start.  When   *)
(* a command cannot be spawned it sets _adb_ok to False and emits exactly   *)
(* one error with the availability text; when check_adb has finished,       *)
(* _adb_ok is True exactly when no spawn error occurred; and no other step  *)
(* (pair, connect, mirror launch) ever changes _adb_ok.                     *)
(***************************************************************************)
C16_CheckCommands == {"version", "start-server"}

C16_SpawnError(c) == c.result.kind = "FileNotFoundError"

\* the step emits the one availability error of request id
C16_EmitsUnavailable(id) ==
    /\ EmitsOneError(id)
    /\ events'[Len(events')].msg = ErrAdbNotFound

\* only a returning command of check_adb changes _adb_ok
C16_OnlyCheckChanges ==
    adb_ok' # adb_ok =>
        \E c \in running : Returned(c) /\ c.cmd \in C16_CheckCommands

\* the claim as stated
C16_AvailableUnlessSpawnError ==
    [][/\ \A c \in running :
             Returned(c) /\ c.cmd \in C16_CheckCommands =>
                /\ C16_SpawnError(c) =>
                      ~adb_ok' /\ C16_EmitsUnavailable(c.req.id)
                /\ workerSlot' = NoSlot => (adb_ok' <=> ~C16_SpawnError(c))
       /\ C16_OnlyCheckChanges]_vars

\* the version probe was spawned and exited with a non-zero code
C16_ProbeRefused(c) ==
    c.cmd = "version" /\ c.result.kind = "exited" /\ c.result.returncode # 0

C16_Fails(c) == C16_SpawnError(c) \/ C16_ProbeRefused(c)

\* C16 as it holds: a version probe that exits with a non-zero code makes adb
\* unavailable as well, with the same error
C16_AvailableUnlessProbeFails ==
    [][/\ \A c \in running :
             Returned(c) /\ c.cmd \in C16_CheckCommands =>
                /\ C16_Fails(c) =>
                      /\ ~adb_ok' /\ C16_EmitsUnavailable(c.req.id)
                      /\ workerSlot' = NoSlot
                /\ ~C16_Fails(c) => events' = events
                /\ c.cmd = "version" /\ ~C16_Fails(c) =>
                      /\ adb_ok' = adb_ok
                      /\ \E d \in running' : d.cmd = "start-server" /\ d.req = c.req
                /\ workerSlot' = NoSlot => (adb_ok' <=> ~C16_Fails(c))
       /\ C16_OnlyCheckChanges]_vars

\* check_adb has run both commands and made adb available; later requests
\* have run and left it so
C16_Witness ==
    /\ adb_ok
    /\ \E k \in 1..Len(events) : events[k].req > 1
    /\ \A k \in 1..Len(events) : events[k].msg # ErrAdbNotFound

(***************************************************************************)
(* C17: start_scrcpy first enumerates the attached devices.  If the         *)
(* enumeration is empty it emits the "no devices connected" error and       *)
(* starts nothing; if no device of a non-empty enumeration is selected for  *)
(* the connected host it emits the "device not found" error and starts      *)
(* nothing; otherwise it starts exactly one mirror process for the selected *)
(* device with the stay-awake flag and emits scrcpyStarted, or emits a      *)
(* spawn error if the process cannot be started.  The enumeration is the    *)
(* one of C10 and the selection the one of C9.                              *)
(***************************************************************************)
\* the step emits the one error msg of request id and starts no process
C17_ErrorOnly(id, msg) ==
    /\ Emits(Signal("error", id, <<>>, msg))
    /\ UNCHANGED <<procs, scrcpy_proc>>

\* the step starts one mirror process for serial and emits scrcpyStarted
C17_Starts(id, serial) ==
    /\ Len(procs') = Len(procs) + 1
    /\ SubSeq(procs', 1, Len(procs)) = procs
    /\ LET h == procs'[Len(procs')]
       IN  /\ h.serial = serial
           /\ \E k \in 1..Len(h.args) : h.args[k] = "--stay-awake"
    /\ Emits(Signal("scrcpyStarted", id, <<>>, ""))

C17_LaunchMirror ==
    [][\A c \in running :
          Returned(c) /\ c.cmd = "devices" /\ c.result.kind = "exited" =>
             LET identifiers == C10_Enumerate(c.result.stdout)
                 selected == C9_Select(identifiers, connected_ip)
             IN  IF identifiers = <<>>
                 THEN C17_ErrorOnly(c.req.id, ErrNoDevices)
                 ELSE IF selected = <<>>
                 THEN C17_ErrorOnly(c.req.id, ErrNotFound)
                 ELSE \/ C17_Starts(c.req.id, selected[1])
                      \/ \E msg \in C13_SpawnErrors : C17_ErrorOnly(c.req.id, msg)]_vars

(***************************************************************************)
(* C18: a pair or connect command that exceeds its timeout ends the request *)
(* with exactly one error whose text is the timed-out text of that          *)
(* operation.  The text differs from the one emitted when the command       *)
(* cannot be spawned and from the one emitted when the command exited       *)
(* without indicating success.  The Worker fields stay as they were, the    *)
(* connected address included, and the worker is idle again.                *)
(***************************************************************************)
C18_TimedOutReason(cmd) == IF cmd = "pair" THEN ErrPairTimeout ELSE ErrConnectTimeout

\* the signal the step emits
C18_Emitted == events'[Len(events')]

C18_TimeoutReported ==
    [][\A c \in running :
          Returned(c) /\ c.cmd \in {"pair", "connect"} =>
             /\ c.result.kind = "TimeoutExpired" =>
                   /\ EmitsOneError(c.req.id)
                   /\ C18_Emitted.msg = C18_TimedOutReason(c.cmd)
                   /\ UNCHANGED <<adb_ok, connected_ip, connected_port, scrcpy_proc>>
                   /\ workerSlot' = NoSlot
             /\ c.result.kind = "FileNotFoundError" =>
                   /\ EmitsOneError(c.req.id)
                   /\ C18_Emitted.msg # C18_TimedOutReason(c.cmd)
             /\ c.result.kind = "exited" =>
                   /\ Len(events') = Len(events) + 1
                   /\ C18_Emitted.sig = "error" =>
                         /\ EmitsOneError(c.req.id)
                         /\ C18_Emitted.msg # C18_TimedOutReason(c.cmd)]_vars

\* a connect timed out after an earlier connect had succeeded, and a pair
\* timed out as well: the connected address is still there
C18_Witness ==
    /\ connected_ip = HostA
    /\ \E k \in 1..Len(events) : events[k].msg = ErrConnectTimeout
    /\ \E k \in 1..Len(events) : events[k].msg = ErrPairTimeout

(***************************************************************************)
(* C19: the handle of every mirror process start_scrcpy has started is held *)
(* by the Worker for the rest of the session: after any sequence of mirror  *)
(* launches, each started process is still referenced by the Worker.        *)
(***************************************************************************)
\* the handles the Worker holds: the value of _scrcpy_proc, if any
C19_Held == {scrcpy_proc[k] : k \in 1..Len(scrcpy_proc)}

C19_EveryHandleHeld == \A i \in 1..Len(procs) : procs[i] \in C19_Held

====
